---------------------------- MODULE Spec2Model ----------------------------
(***************************************************************************)
(* Model of cmd/archive/main.go: one batch run fetches a page of           *)
(* repositories, drops and recreates the table repos, inserts one row per  *)
(* repository and prints the table as JSON.  Runs follow one another       *)
(* against the same database.                                              *)
(*                                                                         *)
(* A Go string is a sequence of one-character strings, "a/b" being         *)
(* <<"a", "/", "b">>.  A time.Time is a record [day, tod]: the calendar    *)
(* day and the time of day.  An int64 is a record [hi, lo] standing for    *)
(* hi * 2^31 + lo with 0 <= lo < 2^31, so that it fits a PostgreSQL INT    *)
(* (and is then lo) exactly when hi = 0.                                   *)
(***************************************************************************)
EXTENDS Integers, Sequences, FiniteSets, TLC

(***************************************************************************)
(* Bounds of the model.                                                    *)
(***************************************************************************)
\* longest full name and description of the transformer's inputs
MaxStrLen == 3
\* longest topic label of the transformer's inputs
MaxLabelLen == 1
\* most topics of one repository of the transformer's inputs
MaxTopics == 2
\* most records of one fetched page
MaxFetch == 2
\* runs of the program against the same database
MaxRuns == 2

(***************************************************************************)
(* Program constants.                                                      *)
(***************************************************************************)
\* appSignal := make(chan os.Signal, 3)
ChanCap == 3

(***************************************************************************)
(* Strings.                                                                *)
(***************************************************************************)
\* the strings of at most n characters over alphabet
Str(alphabet, n) == UNION {[1..k -> alphabet] : k \in 0..n}

\* strings.Index(s, sep) for a one-character sep, 1-based; 0 when absent
Index(s, sep) ==
    IF \E p \in 1..Len(s) : s[p] = sep
    THEN CHOOSE p \in 1..Len(s) : s[p] = sep /\ \A q \in 1..(p - 1) : s[q] # sep
    ELSE 0

\* strings.LastIndex(s, sep), 1-based; 0 when absent
LastIndex(s, sep) ==
    IF \E p \in 1..Len(s) : s[p] = sep
    THEN CHOOSE p \in 1..Len(s) : s[p] = sep /\ \A q \in (p + 1)..Len(s) : s[q] # sep
    ELSE 0

\* s around position p: (s[:p], s[p+1:], true), or (s, "", false) for p = 0
CutAt(s, p) ==
    IF p = 0
    THEN [before |-> s, after |-> <<>>, found |-> FALSE]
    ELSE [before |-> SubSeq(s, 1, p - 1), after |-> SubSeq(s, p + 1, Len(s)),
          found |-> TRUE]

\* strings.Cut(s, sep): around the first sep; (s, "", false) when absent
Cut(s, sep) == CutAt(s, Index(s, sep))

\* the cut around the last sep instead of the first
CutLast(s, sep) == CutAt(s, LastIndex(s, sep))

(***************************************************************************)
(* insertRepos, the values it computes for the query.                      *)
(***************************************************************************)
\* variant: the full name cut at its last "/"
SplitFullNameAtLast(fullName) == CutLast(fullName, "/")

\* ownerBefore, nameAfter, _ := strings.Cut(r.Data.FullName, "/")
SplitFullName(fullName) == Cut(fullName, "/")

\* variant: the description cut at its last ":"
SplitDescriptionAtLast(description) == CutLast(description, ":")

\* categoryBefore, descriptionAfter, _ := strings.Cut(r.Data.Description, ":")
SplitDescription(description) == Cut(description, ":")

RECURSIVE TopicsLoop(_, _)
\* the loop over r.Data.Topics: topics is the string built so far
TopicsLoop(topics, rest) ==
    IF rest = <<>>
    THEN topics
    ELSE TopicsLoop(IF Len(topics) < 1
                    THEN Head(rest)
                    ELSE topics \o <<",">> \o Head(rest),
                    Tail(rest))

\* var topics string; for _, v := range r.Data.Topics { ... }
JoinTopics(topicList) == TopicsLoop(<<>>, topicList)

\* t.Format("2006-01-02"): the calendar day, the time of day dropped
Format(t) == t.day

\* the ten arguments of the INSERT, by column
QueryArgs(r) ==
    [owner       |-> SplitFullName(r.Data.FullName).before,
     name        |-> SplitFullName(r.Data.FullName).after,
     category    |-> SplitDescription(r.Data.Description).before,
     description |-> SplitDescription(r.Data.Description).after,
     html_url    |-> r.Data.HTMLURL,
     homepage    |-> r.Data.Homepage,
     topics      |-> JoinTopics(r.Data.Topics),
     created_at  |-> Format(r.Data.CreatedAt),
     updated_at  |-> Format(r.Data.UpdatedAt),
     uid         |-> r.Data.ID]


(***************************************************************************)
(* The GitHub API's answer and parseGH.                                    *)
(***************************************************************************)
\* a github.Repository as the getters of parseGH read it
Repository(id, name, fullName, description, topics, created, updated) ==
    [ID |-> id, Name |-> name, FullName |-> fullName,
     Description |-> description, HTMLURL |-> <<"u">>, Homepage |-> <<>>,
     Topics |-> topics, CreatedAt |-> created, UpdatedAt |-> updated]

\* the repositories the account may hold; the last one's id exceeds an INT
Repositories ==
    { Repository([hi |-> 0, lo |-> 1], <<"w">>, <<"o", "/", "w">>, <<"t", ":", "w">>,
                 << <<"a">>, <<"b">> >>,
                 [day |-> 1, tod |-> 1], [day |-> 2, tod |-> 0]),
      Repository([hi |-> 0, lo |-> 2], <<"y">>, <<"o", "/", "x", "/", "y">>, <<"w">>,
                 <<>>,
                 [day |-> 1, tod |-> 0], [day |-> 1, tod |-> 1]),
      Repository([hi |-> 0, lo |-> 4], <<"v">>, <<"o", "/", "v">>, <<"t", ":">>,
                 << <<"b">> >>,
                 [day |-> 2, tod |-> 0], [day |-> 2, tod |-> 1]),
      Repository([hi |-> 1, lo |-> 0], <<"z">>, <<"z">>, <<":", "w", ":">>,
                 << <<"a">> >>,
                 [day |-> 2, tod |-> 1], [day |-> 2, tod |-> 1]) }

\* one page of the listing: up to MaxFetch distinct repositories, in some order
Pages ==
    {p \in UNION {[1..n -> Repositories] : n \in 0..MaxFetch} :
        \A a, b \in 1..Len(p) : a # b => p[a] # p[b]}

\* the body of parseGH's loop: one repo value from one github.Repository
ParseOne(v) ==
    [Name |-> v.Name,
     Data |-> [ID |-> v.ID, FullName |-> v.FullName,
               Description |-> v.Description, HTMLURL |-> v.HTMLURL,
               Homepage |-> v.Homepage, Topics |-> v.Topics,
               CreatedAt |-> v.CreatedAt, UpdatedAt |-> v.UpdatedAt]]

\* parseGH(repo, arr, ghData): arr with one repo appended per element
parseGH(arr, ghData) == arr \o [n \in 1..Len(ghData) |-> ParseOne(ghData[n])]

\* variant: ghRepos without the test for an empty page
EmptyPageIgnored(data) == FALSE

\* if len(data) <= 0 { log.Fatalf(...) }
EmptyPage(data) == Len(data) <= 0

(***************************************************************************)
(* The database: the table repos, as the statements of the program act on  *)
(* it.  A table is [exists, rows], rows in the order they were inserted.   *)
(***************************************************************************)
\* variant: DROP TABLE IF EXISTS repos;
DropValidIfExists(t) == TRUE

\* DROP TABLE repos; is an error when there is no such table
DropValid(t) == t.exists

\* the table and its rows are gone
ExecDrop(t) == [exists |-> FALSE, rows |-> <<>>]

\* CREATE TABLE repos (...) is an error when the table exists
CreateValid(t) == ~t.exists

\* the table exists and is empty, its id sequence starting at 1
ExecCreate(t) == [exists |-> TRUE, rows |-> <<>>]

\* INSERT INTO repos ...: the table must exist and uid fit the INT column
InsertValid(t, a) == t.exists /\ a.uid.hi = 0

\* the row as stored: the arguments by column, uid as an INT, and the id
StoredRow(id, a) == ("id" :> id) @@ [a EXCEPT !.uid = a.uid.lo]

\* variant: the new row stored before the others
ExecInsertFirst(t, a) ==
    [t EXCEPT !.rows = <<StoredRow(Len(t.rows) + 1, a)>> \o @]

\* the row gets the next value of the id SERIAL column and is stored last
ExecInsert(t, a) ==
    [t EXCEPT !.rows = Append(@, StoredRow(Len(t.rows) + 1, a))]

\* select * from repos; needs the table
SelectValid(t) == t.exists

\* variant: UID filled from the scanned id instead of uid
JsonRepoUidFromId(row) ==
    [owner |-> row.owner, name |-> row.name, category |-> row.category,
     description |-> row.description, htmlurl |-> row.html_url,
     homepage |-> row.homepage, topics |-> row.topics,
     createdAt |-> row.created_at, updatedAt |-> row.updated_at,
     uid |-> row.id]

\* rows.Scan and the jsonRepo literal of selectRepos: id is scanned and dropped
JsonRepo(row) ==
    [owner |-> row.owner, name |-> row.name, category |-> row.category,
     description |-> row.description, htmlurl |-> row.html_url,
     homepage |-> row.homepage, topics |-> row.topics,
     createdAt |-> row.created_at, updatedAt |-> row.updated_at,
     uid |-> row.uid]

\* the orders in which an unordered read may return n rows
ReadOrders(n) == {f \in [1..n -> 1..n] : \A a, b \in 1..n : a # b => f[a] # f[b]}

(***************************************************************************)
(* State.                                                                  *)
(***************************************************************************)
VARIABLES
    pc,         \* the statement of main the process is at, or how it ended
    inflight,   \* the call of the stage at pc was issued and has not returned
    api,        \* what the GitHub API answered to this run's listing
    allRepos,   \* main's allRepos
    i,          \* position of main's loop over allRepos, from 1
    notified,   \* signal.Notify(appSignal, os.Interrupt) has run
    appSignal,  \* signals buffered in the channel appSignal
    cancelled,  \* stop() was called: ctx is cancelled
    table,      \* the table repos of the database
    stdout,     \* the lines this run printed
    err,        \* the error the run died of
    trace,      \* the stage calls this run made, in order
    run,        \* the number of this run
    startTable, \* the table when this run started
    prev,       \* the run before: whether it succeeded, its fetch and output
    intr,       \* the moment an interrupt took effect in this run
    inR,        \* the transformer alone: the repo handed to insertRepos
    outArgs     \* the transformer alone: the query arguments computed, if any

vars == <<pc, inflight, api, allRepos, i, notified, appSignal, cancelled,
          table, stdout, err, trace, run, startTable, prev, intr, inR, outArgs>>

procVars == <<pc, inflight, api, allRepos, i, notified, appSignal, cancelled,
              stdout, err, trace, intr>>

normVars == <<inR, outArgs>>

histVars == <<run, startTable, prev>>

Ended == {"done", "fatal", "killed"}

NoIntr == [kind |-> "none", stage |-> "none", busy |-> FALSE, k |-> 0, n |-> 0]

NoApi == [state |-> "none", data |-> <<>>]

NoPrev == [ok |-> FALSE, fetch |-> <<>>, snap |-> <<>>]

\* a repository an earlier run fetched and the account no longer holds
Gone ==
    Repository([hi |-> 0, lo |-> 3], <<"g">>, <<"o", "/", "g">>, <<"g">>,
               << <<"a">> >>, [day |-> 1, tod |-> 0], [day |-> 1, tod |-> 0])

\* the tables a first run may find: none, or the row an earlier run stored
InitTables ==
    { [exists |-> FALSE, rows |-> <<>>],
      ExecInsert(ExecCreate([exists |-> FALSE, rows |-> <<>>]),
                 QueryArgs(ParseOne(Gone))) }

\* the repos the transformer is tried on
NormInputs ==
    [Name : {<<"n">>},
     Data : [ID : {[hi |-> 0, lo |-> 1]},
             FullName : Str({"a", "/"}, MaxStrLen),
             Description : Str({"a", ":"}, MaxStrLen),
             HTMLURL : {<<"u">>},
             Homepage : {<<>>},
             Topics : UNION {[1..n -> Str({"a", ","}, MaxLabelLen)] :
                                n \in 0..MaxTopics},
             CreatedAt : {[day |-> 1, tod |-> 1]},
             UpdatedAt : {[day |-> 2, tod |-> 0]}]]

\* the transformer's input while the pipeline is modelled
NormIdle == ParseOne(Repository([hi |-> 0, lo |-> 1], <<"n">>, <<>>, <<>>, <<>>,
                                [day |-> 1, tod |-> 1], [day |-> 1, tod |-> 1]))

\* the process as the operating system starts it
ProcStart ==
    /\ pc = "env"
    /\ inflight = FALSE
    /\ api = NoApi
    /\ allRepos = <<>>
    /\ i = 1
    /\ notified = FALSE
    /\ appSignal = 0
    /\ cancelled = FALSE
    /\ stdout = <<>>
    /\ err = "none"
    /\ trace = <<>>
    /\ intr = NoIntr

Init ==
    /\ ProcStart
    /\ table \in InitTables
    /\ run = 1
    /\ startTable = table
    /\ prev = NoPrev
    /\ inR = NormIdle
    /\ outArgs = <<>>

(***************************************************************************)
(* main, statement by statement.                                           *)
(***************************************************************************)
\* variant: main without the calls of dropRepos and createRepos
NextStageNoReset(stage) ==
    CASE stage = "env" -> "fetch"
      [] stage = "fetch" -> "open"
      [] stage = "open" -> "notify"
      [] stage = "notify" -> "ping"
      [] stage = "ping" -> "insert"
      [] stage = "drop" -> "create"
      [] stage = "create" -> "insert"
      [] stage = "insert" -> "select"
      [] OTHER -> "done"

\* the order of main's calls; "insert" stands for the loop over allRepos
NextStage(stage) ==
    CASE stage = "env" -> "fetch"
      [] stage = "fetch" -> "open"
      [] stage = "open" -> "notify"
      [] stage = "notify" -> "ping"
      [] stage = "ping" -> "drop"
      [] stage = "drop" -> "create"
      [] stage = "create" -> "insert"
      [] stage = "insert" -> "select"
      [] OTHER -> "done"

\* where control goes after `stage` with k the loop position and repos the
\* list: the loop runs while k <= len(allRepos), then selectRepos is called
Goto(stage, k, repos) ==
    IF NextStage(stage) = "insert" /\ k > Len(repos)
    THEN "select"
    ELSE IF stage = "insert" /\ k <= Len(repos) THEN "insert"
    ELSE NextStage(stage)

\* variant: the error logged and main going on to its next statement
LogAndGoOn(kind) ==
    /\ pc' = Goto(pc, i, allRepos)
    /\ err' = kind
    /\ inflight' = FALSE

\* log.Fatal: the message is logged and the process exits at once
Fatal(kind) ==
    /\ pc' = "fatal"
    /\ err' = kind
    /\ inflight' = FALSE

\* the stage returned normally
Return(k, repos) ==
    /\ pc' = Goto(pc, k, repos)
    /\ inflight' = FALSE
    /\ err' = err

\* the record of a call in trace: the stage and, for an insert, which one
Entry(stage) == [stage |-> stage, k |-> IF stage = "insert" THEN i ELSE 0]

\* err := godotenv.Load()
LoadEnv ==
    /\ pc = "env"
    /\ \/ Return(i, allRepos)
       \/ Fatal("error")
    /\ UNCHANGED <<api, allRepos, i, notified, appSignal, cancelled, table,
                   stdout, trace, intr>>
    /\ UNCHANGED <<histVars, normVars>>

\* ghRepos calls gc.Repositories.ListByUser(ctxBG, name, opts)
FetchStart ==
    /\ pc = "fetch" /\ ~inflight
    /\ inflight' = TRUE
    /\ trace' = Append(trace, Entry("fetch"))
    /\ UNCHANGED <<pc, err, api, allRepos, i, notified, appSignal, cancelled,
                   table, stdout, intr>>
    /\ UNCHANGED <<histVars, normVars>>

\* ListByUser returns: an error, an empty page, or a page that parseGH
\* converts and main appends to allRepos
FetchDone ==
    /\ pc = "fetch" /\ inflight
    /\ \/ /\ api' = [state |-> "error", data |-> <<>>]
          /\ Fatal("error")
          /\ UNCHANGED allRepos
       \/ \E data \in Pages :
            /\ api' = [state |-> "page", data |-> data]
            /\ IF EmptyPage(data)
               THEN Fatal("empty") /\ UNCHANGED allRepos
               ELSE LET permalikRepos == parseGH(<<>>, data)
                    IN /\ allRepos' = IF Len(permalikRepos) > 0
                                      THEN allRepos \o permalikRepos
                                      ELSE allRepos
                       /\ Return(i, allRepos')
    /\ UNCHANGED <<i, notified, appSignal, cancelled, table, stdout, trace, intr>>
    /\ UNCHANGED <<histVars, normVars>>

\* pool, err = sql.Open("pgx", dsn) and the pool's settings
OpenPool ==
    /\ pc = "open"
    /\ \/ Return(i, allRepos)
       \/ Fatal("error")
    /\ UNCHANGED <<api, allRepos, i, notified, appSignal, cancelled, table,
                   stdout, trace, intr>>
    /\ UNCHANGED <<histVars, normVars>>

\* ctx, stop := context.WithCancel(...); signal.Notify(...); go func() {...}()
Notify ==
    /\ pc = "notify"
    /\ notified' = TRUE
    /\ Return(i, allRepos)
    /\ UNCHANGED <<api, allRepos, i, appSignal, cancelled, table, stdout,
                   trace, intr>>
    /\ UNCHANGED <<histVars, normVars>>

(***************************************************************************)
(* The database calls.  Each runs under context.WithTimeout(ctx, ...): a   *)
(* call made with ctx already cancelled fails before anything is sent; a   *)
(* call in flight ends with the server's answer, with the deadline passing *)
(* or with ctx being cancelled.  On a deadline or a cancellation the       *)
(* client does not learn whether the server carried the statement out.     *)
(***************************************************************************)
\* what a call in flight may end with: the error the client sees (res) and
\* whether the server carried the statement out (applied)
Outcomes(valid) ==
    {o \in [res : {"ok", "error", "timeout", "canceled"}, applied : BOOLEAN] :
        /\ (o.res = "canceled") = cancelled
        /\ o.applied => valid
        /\ o.res = "ok" => o.applied
        /\ o.res = "error" => ~o.applied}

\* an INSERT may also be answered without error and without a row stored
InsertOutcomes(valid) ==
    Outcomes(valid) \cup
    (IF cancelled THEN {} ELSE {[res |-> "ok", applied |-> FALSE]})

\* result.RowsAffected()
RowsAffected(o) == IF o.applied THEN 1 ELSE 0

\* a database function is entered: its call is issued unless ctx is cancelled
Call(stage) ==
    /\ pc = stage /\ ~inflight
    /\ trace' = Append(trace, Entry(stage))
    /\ IF cancelled
       THEN Fatal("canceled")
       ELSE inflight' = TRUE /\ UNCHANGED <<pc, err>>
    /\ UNCHANGED <<api, allRepos, i, notified, appSignal, cancelled, table,
                   stdout, intr>>
    /\ UNCHANGED <<histVars, normVars>>

\* ping(ctx): pool.PingContext
PingStart == pc = "ping" /\ Call("ping")

PingDone ==
    /\ pc = "ping" /\ inflight
    /\ \E o \in Outcomes(TRUE) :
         IF o.res = "ok" THEN Return(i, allRepos) ELSE Fatal(o.res)
    /\ UNCHANGED <<api, allRepos, i, notified, appSignal, cancelled, table,
                   stdout, trace, intr>>
    /\ UNCHANGED <<histVars, normVars>>

\* dropRepos(ctx): pool.ExecContext(ctx, "DROP TABLE repos;")
DropStart == pc = "drop" /\ Call("drop")

DropDone ==
    /\ pc = "drop" /\ inflight
    /\ \E o \in Outcomes(DropValid(table)) :
         /\ table' = IF o.applied THEN ExecDrop(table) ELSE table
         /\ IF o.res = "ok" THEN Return(i, allRepos) ELSE Fatal(o.res)
    /\ UNCHANGED <<api, allRepos, i, notified, appSignal, cancelled, stdout,
                   trace, intr>>
    /\ UNCHANGED <<histVars, normVars>>

\* createRepos(ctx): pool.ExecContext(ctx, createQuery)
CreateStart == pc = "create" /\ Call("create")

CreateDone ==
    /\ pc = "create" /\ inflight
    /\ \E o \in Outcomes(CreateValid(table)) :
         /\ table' = IF o.applied THEN ExecCreate(table) ELSE table
         /\ IF o.res = "ok" THEN Return(i, allRepos) ELSE Fatal(o.res)
    /\ UNCHANGED <<api, allRepos, i, notified, appSignal, cancelled, stdout,
                   trace, intr>>
    /\ UNCHANGED <<histVars, normVars>>

\* insertRepos(ctx, v) for v = allRepos[i]: the arguments are computed and
\* pool.ExecContext is called
InsertStart == pc = "insert" /\ i <= Len(allRepos) /\ Call("insert")

\* ExecContext returns; an error is fatal, and so is a count of affected
\* rows other than 1; otherwise the loop goes on with the next repo
InsertDone ==
    /\ pc = "insert" /\ inflight
    /\ LET a == QueryArgs(allRepos[i])
       IN \E o \in InsertOutcomes(InsertValid(table, a)) :
            /\ table' = IF o.applied THEN ExecInsert(table, a) ELSE table
            /\ IF o.res # "ok"
               THEN Fatal(o.res) /\ UNCHANGED i
               ELSE IF RowsAffected(o) # 1
               THEN Fatal("rowcount") /\ UNCHANGED i
               ELSE i' = i + 1 /\ Return(i', allRepos)
    /\ UNCHANGED <<api, allRepos, notified, appSignal, cancelled, stdout,
                   trace, intr>>
    /\ UNCHANGED <<histVars, normVars>>

\* selectRepos(ctx): pool.QueryContext(ctx, "select * from repos;")
SelectStart == pc = "select" /\ Call("select")

\* the rows are read in whatever order the database returns them, marshalled
\* and printed; an error of the query or of the iteration is fatal
SelectDone ==
    /\ pc = "select" /\ inflight
    /\ \E o \in Outcomes(SelectValid(table)) :
         IF o.res = "ok"
         THEN /\ \E f \in ReadOrders(Len(table.rows)) :
                   stdout' = Append(stdout,
                       [n \in 1..Len(table.rows) |-> JsonRepo(table.rows[f[n]])])
              /\ Return(i, allRepos)
         ELSE Fatal(o.res) /\ UNCHANGED stdout
    /\ UNCHANGED <<api, allRepos, i, notified, appSignal, cancelled, table,
                   trace, intr>>
    /\ UNCHANGED <<histVars, normVars>>

(***************************************************************************)
(* The interrupt signal.                                                   *)
(***************************************************************************)
\* where the run stood when the interrupt took effect
Moment(kind) ==
    [kind |-> kind, stage |-> pc, busy |-> inflight, k |-> Entry(pc).k,
     n |-> Len(table.rows)]

\* SIGINT arrives.  Before signal.Notify the Go runtime's default applies and
\* the process dies; after it the signal is sent to appSignal without
\* blocking, and is dropped when the channel is full
Interrupt ==
    /\ pc \notin Ended
    /\ IF ~notified
       THEN /\ pc' = "killed"
            /\ inflight' = FALSE
            /\ intr' = Moment("kill")
            /\ UNCHANGED appSignal
       ELSE /\ appSignal' = IF appSignal < ChanCap THEN appSignal + 1 ELSE appSignal
            /\ UNCHANGED <<pc, inflight, intr>>
    /\ UNCHANGED <<api, allRepos, i, notified, cancelled, table, stdout, err,
                   trace>>
    /\ UNCHANGED <<histVars, normVars>>

\* go func() { <-appSignal; stop() }()
Listener ==
    /\ pc \notin Ended
    /\ notified /\ ~cancelled /\ appSignal > 0
    /\ appSignal' = appSignal - 1
    /\ cancelled' = TRUE
    /\ intr' = Moment("cancel")
    /\ UNCHANGED <<pc, inflight, api, allRepos, i, notified, table, stdout,
                   err, trace>>
    /\ UNCHANGED <<histVars, normVars>>

(***************************************************************************)
(* The program is run again against the same database.                     *)
(***************************************************************************)
NewRun ==
    /\ pc \in Ended
    /\ run < MaxRuns
    /\ run' = run + 1
    /\ startTable' = table
    /\ prev' = IF pc = "done"
               THEN [ok |-> TRUE, fetch |-> allRepos, snap |-> stdout[1]]
               ELSE NoPrev
    /\ pc' = "env"
    /\ inflight' = FALSE
    /\ api' = NoApi
    /\ allRepos' = <<>>
    /\ i' = 1
    /\ notified' = FALSE
    /\ appSignal' = 0
    /\ cancelled' = FALSE
    /\ stdout' = <<>>
    /\ err' = "none"
    /\ trace' = <<>>
    /\ intr' = NoIntr
    /\ UNCHANGED <<table, normVars>>

Next ==
    \/ LoadEnv
    \/ FetchStart
    \/ FetchDone
    \/ OpenPool
    \/ Notify
    \/ PingStart
    \/ PingDone
    \/ DropStart
    \/ DropDone
    \/ CreateStart
    \/ CreateDone
    \/ InsertStart
    \/ InsertDone
    \/ SelectStart
    \/ SelectDone
    \/ Interrupt
    \/ Listener
    \/ NewRun

Spec == Init /\ [][Next]_vars

(***************************************************************************)
(* The transformer alone: insertRepos's computation on one repo.           *)
(***************************************************************************)
InitNorm ==
    /\ ProcStart
    /\ table = [exists |-> FALSE, rows |-> <<>>]
    /\ run = 1
    /\ startTable = table
    /\ prev = NoPrev
    /\ inR \in NormInputs
    /\ outArgs = <<>>

Transform ==
    /\ outArgs = <<>>
    /\ outArgs' = <<QueryArgs(inR)>>
    /\ UNCHANGED <<procVars, table, histVars, inR>>

NextNorm == Transform

SpecNorm == InitNorm /\ [][NextNorm]_vars

(***************************************************************************)
(* Vocabulary of the properties.                                           *)
(***************************************************************************)
Range(seq) == {seq[n] : n \in 1..Len(seq)}

IsPrefix(a, b) == Len(a) <= Len(b) /\ \A n \in 1..Len(a) : a[n] = b[n]

\* the same elements the same number of times, whatever the order
SameBag(a, b) ==
    /\ Len(a) = Len(b)
    /\ \A x \in Range(a) \cup Range(b) :
         Cardinality({n \in 1..Len(a) : a[n] = x}) =
         Cardinality({n \in 1..Len(b) : b[n] = x})

LastCall == trace[Len(trace)]

Called(stage) == \E n \in 1..Len(trace) : trace[n].stage = stage

\* the columns of a stored row other than the generated id
Columns(row) == [c \in DOMAIN row \ {"id"} |-> row[c]]

\* the normalized image of a fetched repo: the columns its row must hold
Image(r) == [QueryArgs(r) EXCEPT !.uid = r.Data.ID.lo]

\* the snapshot element of a fetched repo
JsonImage(r) ==
    LET a == QueryArgs(r)
    IN [owner |-> a.owner, name |-> a.name, category |-> a.category,
        description |-> a.description, htmlurl |-> a.html_url,
        homepage |-> a.homepage, topics |-> a.topics,
        createdAt |-> a.created_at, updatedAt |-> a.updated_at,
        uid |-> r.Data.ID.lo]

\* this run fetched a page and the page was empty
FetchedNothing == api.state = "page" /\ Len(api.data) = 0

\* C1: whenever the fetch obtained zero records the run has aborted with the
\* table as it was when the run started, and no drop, create or insert was
\* called and nothing was printed.
C1_EmptyFetchGuard ==
    FetchedNothing =>
        /\ pc = "fatal"
        /\ table = startTable
        /\ ~Called("drop") /\ ~Called("create") /\ ~Called("insert")
        /\ stdout = <<>>

C1_Witness ==
    /\ FetchedNothing
    /\ pc = "fatal"
    /\ startTable.exists /\ startTable.rows # <<>>

\* C2: after a successful run the table holds exactly the normalized images
\* of the records fetched in this run, uid being the record's identifier,
\* and the printed snapshot holds exactly those records, whatever the table
\* held before.
C2_TableIsLatestFetch ==
    pc = "done" =>
        /\ api.state = "page"
        /\ allRepos = [n \in 1..Len(api.data) |-> ParseOne(api.data[n])]
        /\ table.exists
        /\ SameBag([n \in 1..Len(table.rows) |-> Columns(table.rows[n])],
                   [n \in 1..Len(allRepos) |-> Image(allRepos[n])])
        /\ \A r \in Range(allRepos) : r.Data.ID.hi = 0
        /\ Len(stdout) = 1
        /\ SameBag(stdout[1], [n \in 1..Len(allRepos) |-> JsonImage(allRepos[n])])

C2_Witness ==
    /\ pc = "done"
    /\ Len(allRepos) = 2
    /\ startTable.exists /\ startTable.rows # <<>>
    /\ \A row \in Range(startTable.rows) :
          \A now \in Range(table.rows) : row.uid # now.uid

\* C3: when two consecutive runs both succeed on the same fetched sequence,
\* their snapshots hold the same records the same number of times (and so
\* are equal as sets), array order ignored.
C3_RebuildConsistency ==
    (pc = "done" /\ prev.ok /\ prev.fetch = allRepos) =>
        /\ SameBag(stdout[1], prev.snap)
        /\ Range(stdout[1]) = Range(prev.snap)

C3_Witness ==
    /\ pc = "done" /\ prev.ok /\ prev.fetch = allRepos
    /\ Len(allRepos) = 2
    /\ stdout[1] # prev.snap

\* the calls the claim orders (ping aside), as this run made them
StageCalls == SelectSeq(trace, LAMBDA e : e.stage # "ping")

\* fetch, drop, create, one insert per repo in fetch order, select
ExpectedCalls(repos) ==
    <<[stage |-> "fetch", k |-> 0], [stage |-> "drop", k |-> 0],
      [stage |-> "create", k |-> 0]>>
    \o [n \in 1..Len(repos) |-> [stage |-> "insert", k |-> n]]
    \o <<[stage |-> "select", k |-> 0]>>

\* the calls so far follow the fixed order, each made once; a snapshot is
\* printed only by a run that made every call and ended without error; a run
\* that died printed nothing
StagesInOrder ==
    /\ IsPrefix(StageCalls, ExpectedCalls(allRepos))
    /\ stdout # <<>> =>
          /\ pc = "done" /\ err = "none"
          /\ Len(stdout) = 1
          /\ StageCalls = ExpectedCalls(allRepos)
    /\ pc \in {"fatal", "killed"} => stdout = <<>>
    /\ pc = "fatal" <=> err # "none"

\* once the run has died, nothing more is called, printed or stored by it
DeadStaysDead ==
    (pc \in {"fatal", "killed"} /\ run' = run) =>
        /\ pc' = pc
        /\ trace' = trace
        /\ stdout' = stdout
        /\ table' = table

\* C7: the stages of a run are called in the order fetch, drop, create, one
\* insert per fetched record in fetch order, select, each at most once; the
\* snapshot is printed only if every stage before succeeded; after the first
\* stage error no stage is called and nothing is printed.
C7_StageOrder == [](StagesInOrder) /\ [][DeadStaysDead]_vars

C7_Witness ==
    /\ pc = "fatal" /\ err = "error"
    /\ trace # <<>>
    /\ LastCall = [stage |-> "insert", k |-> 2]
    /\ stdout = <<>>

\* the drop of this run was called and has returned
DropReturned == Called("drop") /\ ~(pc = "drop" /\ inflight)

\* C9: a run started without the table never gets past the drop: the drop
\* fails fatally, the table is not created, no row is stored and nothing is
\* printed, so the next run starts without the table as well.
C9_NoTableNoReset ==
    ~startTable.exists =>
        /\ ~table.exists /\ table.rows = <<>>
        /\ stdout = <<>>
        /\ pc \notin {"create", "insert", "select", "done"}
        /\ ~Called("create") /\ ~Called("insert") /\ ~Called("select")
        /\ DropReturned => pc = "fatal"

C9_Witness ==
    /\ run = 2
    /\ ~startTable.exists
    /\ DropReturned /\ pc = "fatal" /\ err = "error"
    /\ LastCall.stage = "drop"

\* the Reset of this run succeeded: create returned without error
ResetDone ==
    \/ pc \in {"insert", "select", "done"}
    \/ Called("insert") \/ Called("select")

\* the table exists and its rows are the images of the first fetched repos,
\* in fetch order
PrefixStored ==
    /\ table.exists
    /\ Len(table.rows) <= Len(allRepos)
    /\ \A n \in 1..Len(table.rows) : Columns(table.rows[n]) = Image(allRepos[n])

\* the run died in insert number LastCall.k
InsertFailed == pc = "fatal" /\ trace # <<>> /\ LastCall.stage = "insert"

\* after the Reset the rows only grow, and a dead run leaves them alone
RowsOnlyGrow ==
    (ResetDone /\ run' = run) =>
        /\ IsPrefix(table.rows, table'.rows)
        /\ pc = "fatal" => table' = table

StillAwaiting == inflight /\ pc = intr.stage /\ Entry(pc).k = intr.k

\* the call that was in flight when the interrupt took effect failed with a
\* cancellation error and the run died of it, no later stage being called,
\* with the rows stored before the interrupt still there
DiedOfCancellation ==
    /\ pc = "fatal" /\ err = "canceled"
    /\ trace # <<>>
    /\ LastCall.stage = intr.stage /\ LastCall.k = intr.k
    /\ stdout = <<>>
    /\ intr.stage \in {"insert", "select"} =>
          /\ table.exists
          /\ Len(table.rows) >= intr.n
          /\ \A n \in 1..intr.n : Columns(table.rows[n]) = Image(allRepos[n])

\* C8: an interrupt that takes effect while a call of the Fetcher or of the
\* Store is in flight, in whichever stage, cancels the shared context, and
\* the call fails with a cancellation error of which the run dies.
C8_InterruptCancelsAwaiting ==
    (intr.kind # "none" /\ intr.busy) =>
        /\ intr.kind = "cancel"
        /\ StillAwaiting \/ DiedOfCancellation

\* what the code does do: once signal.Notify has run (from ping on), an
\* interrupt cancels ctx and the database call in flight fails with a
\* cancellation error; during the fetch the interrupt kills the process
StoreCallsCancelled ==
    (intr.kind # "none" /\ intr.busy) =>
        IF intr.stage = "fetch"
        THEN intr.kind = "kill" /\ pc = "killed" /\ err = "none"
        ELSE intr.kind = "cancel" /\ (StillAwaiting \/ DiedOfCancellation)

StoreCallsCancelled_Witness ==
    /\ intr.kind = "cancel" /\ intr.busy /\ intr.stage = "insert" /\ intr.k = 2
    /\ DiedOfCancellation

(***************************************************************************)
(* The transformer's properties, under SpecNorm.                           *)
(***************************************************************************)
RECURSIVE Join(_, _)
\* strings.Join(list, sep)
Join(list, sep) ==
    IF list = <<>> THEN <<>>
    ELSE IF Len(list) = 1 THEN list[1]
    ELSE list[1] \o <<sep>> \o Join(Tail(list), sep)

RECURSIVE Split(_, _)
\* strings.Split(s, sep): the pieces between the seps, one piece for no sep
Split(s, sep) ==
    IF Index(s, sep) = 0
    THEN <<s>>
    ELSE <<Cut(s, sep).before>> \o Split(Cut(s, sep).after, sep)

\* C4: for a topic list none of whose labels contains ",", the topics
\* argument is the labels joined with "," in order, and splitting it on ","
\* gives back the list.  (Stated for the lists of at least one label: the
\* empty list is stored as the empty string, which strings.Split takes for
\* one empty label whatever the join does.)
C4_TopicRoundTrip ==
    (/\ outArgs # <<>>
     /\ inR.Data.Topics # <<>>
     /\ \A n \in 1..Len(inR.Data.Topics) : "," \notin Range(inR.Data.Topics[n])) =>
        /\ outArgs[1].topics = Join(inR.Data.Topics, ",")
        /\ Split(outArgs[1].topics, ",") = inR.Data.Topics

\* C5: a description containing ":" is category, ":", description with the
\* category free of ":"; one without ":" is the category, the description
\* being empty.
C5_DescriptionSplit ==
    outArgs # <<>> =>
        LET d == inR.Data.Description
            a == outArgs[1]
        IN IF ":" \in Range(d)
           THEN /\ a.category \o <<":">> \o a.description = d
                /\ ":" \notin Range(a.category)
           ELSE a.category = d /\ a.description = <<>>

C5_Witness ==
    /\ outArgs # <<>>
    /\ Len(inR.Data.Description) = 3
    /\ outArgs[1].category = <<"a">>
    /\ ":" \in Range(outArgs[1].description)

\* C6: a full name containing "/" is owner, "/", name with the owner free of
\* "/", any further "/" staying in the name.
C6_NameSplit ==
    (outArgs # <<>> /\ "/" \in Range(inR.Data.FullName)) =>
        LET a == outArgs[1]
        IN /\ a.owner \o <<"/">> \o a.name = inR.Data.FullName
           /\ "/" \notin Range(a.owner)

C6_Witness ==
    /\ outArgs # <<>>
    /\ Len(inR.Data.FullName) = 3
    /\ outArgs[1].owner = <<"a">>
    /\ "/" \in Range(outArgs[1].name)

=============================================================================
